---------------------------- MODULE Spec2Model ----------------------------
(***************************************************************************)
(* A model of utils/plotter.py: the Plotly theme (get_plotly_theme,        *)
(* PLOTLY_THEME, CHART_COLORS), the figure styler (update_layout) and the  *)
(* PNG exporter (export_png_high_quality, export_png).                     *)
(*                                                                         *)
(* Python strings that the code inspects (file names) are sequences of     *)
(* one-character strings, so that endswith, concatenation and the path     *)
(* parsing are computed.  Opaque values (colors, font names, titles) are   *)
(* TLA+ strings.  An optional argument is a sequence: <<>> when the caller *)
(* omits it, <<v>> when the caller gives v.  A float scale is the pair     *)
(* <<numerator, denominator>>.                                             *)
(***************************************************************************)
EXTENDS Integers, Sequences, FiniteSets, TLC

VARIABLES
    PLOTLY_THEME,   \* module global, plotter.py:78
    CHART_COLORS,   \* module global, plotter.py:81
    heap,           \* figure objects by handle; the caller owns handle FIG
    call,           \* the last styling call: its arguments, pre-state, result
    descriptors,    \* what get_plotly_theme returned: <<first, most recent>>
    fs,             \* the file system: directories and regular files
    last,           \* the last export call: its arguments, pre-state, result
    prev,           \* summary of the export call before the last one
    exports         \* number of export calls made

vars == <<PLOTLY_THEME, CHART_COLORS, heap, call, descriptors,
          fs, last, prev, exports>>

styleVars == <<PLOTLY_THEME, CHART_COLORS, heap, call, descriptors>>
exportVars == <<fs, last, prev, exports>>

(***************************************************************************)
(* Bounds of the model.                                                    *)
(***************************************************************************)
MaxTraces == 19
MaxExports == 2

NoError == "none"

(***************************************************************************)
(* Strings and paths.                                                      *)
(***************************************************************************)
PNG == <<".", "p", "n", "g">>

\* str.endswith
EndsWith(s, suffix) ==
    /\ Len(s) >= Len(suffix)
    /\ SubSeq(s, Len(s) - Len(suffix) + 1, Len(s)) = suffix

\* a plausible slip: the suffix is appended whatever the name ends in
normalize_filename_always(filename) == filename \o PNG

\* plotter.py:154-155
normalize_filename(filename) ==
    IF ~EndsWith(filename, PNG) THEN filename \o PNG ELSE filename

RECURSIVE Split(_)
\* str.split("/")
Split(s) ==
    IF \A i \in 1..Len(s) : s[i] # "/"
    THEN <<s>>
    ELSE LET i == CHOOSE k \in 1..Len(s) :
                      s[k] = "/" /\ \A j \in 1..(k - 1) : s[j] # "/"
         IN <<SubSeq(s, 1, i - 1)>> \o Split(SubSeq(s, i + 1, Len(s)))

RECURSIVE LeadingSlashes(_)
LeadingSlashes(s) ==
    IF s # <<>> /\ Head(s) = "/" THEN 1 + LeadingSlashes(Tail(s)) ELSE 0

IsName(c) == c # <<>> /\ c # <<".">>

\* Path(filename): a POSIX path is an anchor ("", "/" or "//") and its
\* components; empty and "." components are dropped.
Path(filename) ==
    LET k == LeadingSlashes(filename)
    IN [anchor |-> IF k = 0 THEN <<>>
                   ELSE IF k = 2 THEN <<"/", "/">> ELSE <<"/">>,
        parts |-> SelectSeq(Split(filename), IsName)]

RECURSIVE Join(_)
Join(parts) ==
    IF parts = <<>> THEN <<>>
    ELSE IF Len(parts) = 1 THEN parts[1]
    ELSE parts[1] \o <<"/">> \o Join(Tail(parts))

\* str(file_path)
PathStr(p) ==
    IF p.anchor = <<>> /\ p.parts = <<>> THEN <<".">>
    ELSE p.anchor \o Join(p.parts)

\* file_path.parent
Parent(p) ==
    IF p.parts = <<>> THEN p
    ELSE [p EXCEPT !.parts = SubSeq(@, 1, Len(@) - 1)]

\* the proper ancestors of p that lie below its anchor
Ancestors(p) ==
    {[p EXCEPT !.parts = SubSeq(@, 1, n)] : n \in 1..(Len(p.parts) - 1)}

(***************************************************************************)
(* The file system.  The anchors ("." for a relative path, "/" and "//")   *)
(* are directories that always exist.                                      *)
(***************************************************************************)
is_dir(f, p) == p.parts = <<>> \/ p \in f.dirs
is_file(f, p) == p \in f.files
path_exists(f, p) == is_dir(f, p) \/ is_file(f, p)

\* os.mkdir(p): one directory, its parent must be a directory
os_mkdir(f, p) ==
    IF \E a \in Ancestors(p) : is_file(f, a)
    THEN [err |-> "NotADirectoryError", fs |-> f]
    ELSE IF ~is_dir(f, Parent(p))
    THEN [err |-> "FileNotFoundError", fs |-> f]
    ELSE IF path_exists(f, p)
    THEN [err |-> "FileExistsError", fs |-> f]
    ELSE [err |-> NoError, fs |-> [f EXCEPT !.dirs = @ \cup {p}]]

RECURSIVE mkdir(_, _, _, _)
\* Path.mkdir(parents=..., exist_ok=...)
mkdir(f, p, parents, exist_ok) ==
    LET r == os_mkdir(f, p)
    IN IF r.err = NoError THEN r
       ELSE IF r.err = "FileNotFoundError"
       THEN IF ~parents \/ Parent(p) = p THEN r
            ELSE LET up == mkdir(f, Parent(p), TRUE, TRUE)
                 IN IF up.err # NoError THEN up
                    ELSE mkdir(up.fs, p, FALSE, exist_ok)
       ELSE IF ~exist_ok \/ ~is_dir(f, p) THEN r
       ELSE [err |-> NoError, fs |-> f]

\* a plausible slip: exist_ok is left at its default, False
create_parent_not_exist_ok(f, file_path) ==
    mkdir(f, Parent(file_path), TRUE, FALSE)

\* plotter.py:159  file_path.parent.mkdir(parents=True, exist_ok=True)
create_parent(f, file_path) == mkdir(f, Parent(file_path), TRUE, TRUE)

(***************************************************************************)
(* The rendering engine (external): fig.write_image(file, width, height,   *)
(* scale, format, engine).  It renders first and writes the file after;    *)
(* whether rendering succeeds is an input, outcome.                        *)
(***************************************************************************)
EngineOutcomes == {"ok", "render_error"}

write_image(f, request, outcome) ==
    LET p == Path(request.file)
    IN IF outcome = "render_error"
       THEN [err |-> "ValueError", fs |-> f]
       ELSE IF \E a \in Ancestors(p) : is_file(f, a)
       THEN [err |-> "NotADirectoryError", fs |-> f]
       ELSE IF ~is_dir(f, Parent(p))
       THEN [err |-> "FileNotFoundError", fs |-> f]
       ELSE IF is_dir(f, p)
       THEN [err |-> "IsADirectoryError", fs |-> f]
       ELSE [err |-> NoError, fs |-> [f EXCEPT !.files = @ \cup {p}]]

\* the pixel dimensions of the image the engine produces for a request
EnginePixels(request) ==
    <<(request.width * request.scale[1]) \div request.scale[2],
      (request.height * request.scale[1]) \div request.scale[2]>>

(***************************************************************************)
(* The exporter.  The result of a call: the file system after it, the      *)
(* requests it made to the engine, the exception it raised (NoError when   *)
(* it returned) and the value it returned (<<path>>, <<>> when it raised). *)
(***************************************************************************)
HQ_DEFAULT_WIDTH == 1200
HQ_DEFAULT_HEIGHT == 800
HQ_DEFAULT_SCALE == <<2, 1>>
PNG_DEFAULT_WIDTH == 1200
PNG_DEFAULT_HEIGHT == 800
PNG_DEFAULT_SCALE == <<1, 1>>

Arg(given, default) == IF given = <<>> THEN default ELSE given[1]

\* a plausible slip: the failure of the directory creation is swallowed
\* and the engine is asked to write all the same
export_body_swallow(f, fig, filename, width, height, scale, outcome) ==
    LET file_path == Path(normalize_filename(filename))
        made == create_parent(f, file_path)
        request == [fig |-> fig, file |-> PathStr(file_path),
                    width |-> width, height |-> height, scale |-> scale,
                    format |-> "png", engine |-> "kaleido"]
        written == write_image(made.fs, request, outcome)
    IN [fs |-> written.fs, after_mkdir |-> made.fs, calls |-> <<request>>,
        raised |-> written.err,
        ret |-> IF written.err = NoError THEN <<PathStr(file_path)>>
                ELSE <<>>]

\* plotter.py:153-171, the body of export_png_high_quality
export_body(f, fig, filename, width, height, scale, outcome) ==
    LET file_path == Path(normalize_filename(filename))
        made == create_parent(f, file_path)
        request == [fig |-> fig, file |-> PathStr(file_path),
                    width |-> width, height |-> height, scale |-> scale,
                    format |-> "png", engine |-> "kaleido"]
        written == write_image(made.fs, request, outcome)
    IN IF made.err # NoError
       THEN [fs |-> made.fs, after_mkdir |-> made.fs, calls |-> <<>>,
             raised |-> made.err, ret |-> <<>>]
       ELSE IF written.err # NoError
       THEN [fs |-> written.fs, after_mkdir |-> made.fs,
             calls |-> <<request>>, raised |-> written.err, ret |-> <<>>]
       ELSE [fs |-> written.fs, after_mkdir |-> made.fs,
             calls |-> <<request>>, raised |-> NoError,
             ret |-> <<PathStr(file_path)>>]

\* plotter.py:133-171, with the defaults of its signature
export_png_high_quality(f, fig, filename, width, height, scale, outcome) ==
    export_body(f, fig, filename,
                Arg(width, HQ_DEFAULT_WIDTH), Arg(height, HQ_DEFAULT_HEIGHT),
                Arg(scale, HQ_DEFAULT_SCALE), outcome)

\* a plausible slip: the scale is not handed on
export_png_drops_scale(f, fig, filename, width, height, scale, outcome) ==
    export_png_high_quality(f, fig, filename,
                            <<Arg(width, PNG_DEFAULT_WIDTH)>>,
                            <<Arg(height, PNG_DEFAULT_HEIGHT)>>,
                            <<>>, outcome)

\* a plausible slip: width and height change places
export_png_swaps_size(f, fig, filename, width, height, scale, outcome) ==
    export_png_high_quality(f, fig, filename,
                            <<Arg(height, PNG_DEFAULT_HEIGHT)>>,
                            <<Arg(width, PNG_DEFAULT_WIDTH)>>,
                            <<Arg(scale, PNG_DEFAULT_SCALE)>>, outcome)

\* plotter.py:174-188
export_png(f, fig, filename, width, height, scale, outcome) ==
    export_png_high_quality(f, fig, filename,
                            <<Arg(width, PNG_DEFAULT_WIDTH)>>,
                            <<Arg(height, PNG_DEFAULT_HEIGHT)>>,
                            <<Arg(scale, PNG_DEFAULT_SCALE)>>, outcome)

(***************************************************************************)
(* The theme.  A nested dict is the function from the paths of its leaves  *)
(* (sequences of keys) to the leaves; numbers and booleans that the code   *)
(* only passes on are their Python literals.                               *)
(***************************************************************************)
\* plotter.py:16-26
colors ==
    [background |-> "#ffffff", foreground |-> "#252525", card |-> "#ffffff",
     primary |-> "#343434", secondary |-> "#f7f7f7", muted |-> "#f7f7f7",
     accent |-> "#f7f7f7", border |-> "#d0d0d0", destructive |-> "#e2483d"]

\* plotter.py:44-55 and 56-67: the styling of one axis
axis_style(axis) ==
    (<<"layout", axis, "gridcolor">> :> colors.border) @@
    (<<"layout", axis, "gridwidth">> :> "0.5") @@
    (<<"layout", axis, "linecolor">> :> colors.border) @@
    (<<"layout", axis, "linewidth">> :> "0.5") @@
    (<<"layout", axis, "tickcolor">> :> colors.border) @@
    (<<"layout", axis, "title_font", "color">> :> colors.foreground) @@
    (<<"layout", axis, "tickfont", "color">> :> colors.foreground) @@
    (<<"layout", axis, "zeroline">> :> "True") @@
    (<<"layout", axis, "zerolinecolor">> :> colors.border) @@
    (<<"layout", axis, "zerolinewidth">> :> "0.5")

\* plotter.py:14-74
get_plotly_theme ==
    (<<"layout", "paper_bgcolor">> :> colors.background) @@
    (<<"layout", "plot_bgcolor">> :> colors.card) @@
    (<<"layout", "font", "family">> :> "Source Code Pro, monospace") @@
    (<<"layout", "font", "color">> :> colors.foreground) @@
    (<<"layout", "font", "size">> :> "10") @@
    (<<"layout", "title", "font", "family">>
        :> "Source Code Pro, monospace") @@
    (<<"layout", "title", "font", "color">> :> colors.foreground) @@
    (<<"layout", "title", "font", "size">> :> "24") @@
    axis_style("xaxis") @@
    axis_style("yaxis") @@
    (<<"layout", "legend", "bgcolor">> :> colors.card) @@
    (<<"layout", "legend", "bordercolor">> :> colors.border) @@
    (<<"layout", "legend", "font", "color">> :> colors.foreground)

\* plotter.py:81-101
ChartColors ==
    <<"#d97706", "#0891b2", "#7c3aed", "#65a30d", "#ca8a04",
      "#E53E3E", "#38B2AC", "#3182CE", "#68D391", "#F6AD55", "#B794F6",
      "#4FD1C7", "#F6E05E", "#9F7AEA", "#63B3ED", "#F687B3", "#48BB78">>

\* d[key] for a nested dict d
Sub(d, key) ==
    LET under == {p \in DOMAIN d : Len(p) > 1 /\ p[1] = key}
    IN [q \in {Tail(p) : p \in under} |-> d[<<key>> \o q]]

\* p is a prefix of q (no path is empty)
IsPrefix(p, q) ==
    /\ p[1] = q[1]
    /\ Len(p) <= Len(q)
    /\ SubSeq(q, 1, Len(p)) = p

\* layout.update(**props): a dict value is merged into what is there, any
\* other value is assigned
Merge(layout, props) ==
    LET kept == {p \in DOMAIN layout :
                     \A q \in DOMAIN props : ~IsPrefix(p, q) /\ ~IsPrefix(q, p)}
    IN [p \in kept \cup DOMAIN props |->
            IF p \in DOMAIN props THEN props[p] ELSE layout[p]]

(***************************************************************************)
(* Figures.  A trace has its data (x, y) and two attributes, line and      *)
(* marker, each of which is absent (no such attribute), falsy (None) or a  *)
(* slot (an object holding a color).                                       *)
(***************************************************************************)
Unset == "unset"
SlotKinds == {"absent", "falsy", "slot"}

HasSlot(attr) == attr.kind = "slot"

\* hasattr(trace, name) and trace.<name>
Truthy(attr) == attr.kind # "absent" /\ attr.kind # "falsy"

Min(a, b) == IF a < b THEN a ELSE b

\* a plausible slip: the index is clamped to the palette, not cycled
style_trace_clamped(trace, i, palette) ==
    LET color == palette[Min(i, Len(palette) - 1) + 1]
    IN IF Truthy(trace.line)
       THEN [trace EXCEPT !.line.color = color]
       ELSE IF Truthy(trace.marker)
       THEN [trace EXCEPT !.marker.color = color]
       ELSE trace

\* a plausible slip: the marker is tried before the line
style_trace_marker_first(trace, i, palette) ==
    LET color == palette[(i % Len(palette)) + 1]
    IN IF Truthy(trace.marker)
       THEN [trace EXCEPT !.marker.color = color]
       ELSE IF Truthy(trace.line)
       THEN [trace EXCEPT !.line.color = color]
       ELSE trace

\* plotter.py:120-123, the body of the loop for the trace at index i
style_trace(trace, i, palette) ==
    LET color == palette[(i % Len(palette)) + 1]
    IN IF Truthy(trace.line)
       THEN [trace EXCEPT !.line.color = color]
       ELSE IF Truthy(trace.marker)
       THEN [trace EXCEPT !.marker.color = color]
       ELSE trace

\* plotter.py:126-128
legend_props ==
    (<<"legend", "orientation">> :> "h") @@
    (<<"legend", "yanchor">> :> "bottom") @@
    (<<"legend", "y">> :> "-0.25") @@
    (<<"legend", "xanchor">> :> "center") @@
    (<<"legend", "x">> :> "0.5")

\* plotter.py:115-128, what update_layout makes of the figure object
styled(figure, title, theme, palette) ==
    LET themed == Merge(figure.layout, Sub(theme, "layout"))
        titled == Merge(themed, (<<"title">> :> title))
        data == [n \in 1..Len(figure.data) |->
                     style_trace(figure.data[n], n - 1, palette)]
    IN [layout |-> Merge(titled, legend_props), data |-> data]

FIG == "fig"
COPY == "copy"

\* a plausible slip: the figure is copied, and the copy styled and returned
update_layout_copy(objects, fig, title, theme, palette) ==
    [heap |-> objects @@ (COPY :> styled(objects[fig], title, theme, palette)),
     ret |-> <<COPY>>, theme |-> theme, palette |-> palette]

\* a plausible slip: the title is put into the shared theme
update_layout_shared(objects, fig, title, theme, palette) ==
    LET mine == Merge(theme, (<<"layout", "title">> :> title))
    IN [heap |-> [objects EXCEPT
                     ![fig] = styled(objects[fig], title, mine, palette)],
        ret |-> <<fig>>, theme |-> mine, palette |-> palette]

\* plotter.py:107-130: the objects, the value returned and the two module
\* globals after the call
update_layout(objects, fig, title, theme, palette) ==
    [heap |-> [objects EXCEPT
                  ![fig] = styled(objects[fig], title, theme, palette)],
     ret |-> <<fig>>, theme |-> theme, palette |-> palette]

(***************************************************************************)
(* The figures the styler is given: N traces, 0 <= N <= MaxTraces, whose   *)
(* line and marker attributes follow a pattern of one or two kinds of      *)
(* trace, on the two base axes or with a second x and y axis as well.      *)
(***************************************************************************)
AxisNames == {"xaxis", "yaxis", "xaxis2", "yaxis2"}
BaseAxes == {"xaxis", "yaxis"}
ExtraAxes == {{}, {"xaxis2", "yaxis2"}}
Preset == "#000000"

TraceKinds == SlotKinds \X SlotKinds
Patterns == {<<a>> : a \in TraceKinds} \cup (TraceKinds \X TraceKinds)

Trace(kind, n) ==
    [line |-> [kind |-> kind[1], color |-> Unset],
     marker |-> [kind |-> kind[2],
                 color |-> IF kind[2] = "slot" THEN Preset ELSE Unset],
     x |-> <<0, 1>>, y |-> <<n, n + 1>>]

MakeFigure(n, pattern, axes) ==
    [layout |-> [p \in {<<a, "type">> : a \in axes} |-> "linear"],
     data |-> [i \in 1..n |->
                   Trace(pattern[((i - 1) % Len(pattern)) + 1], i)]]

Figures ==
    {MakeFigure(n, pattern, BaseAxes \cup extra) :
        n \in 0..MaxTraces, pattern \in Patterns, extra \in ExtraAxes}

\* plotter.py:211-228, the figure of the demonstration: three line traces
DemoFigure ==
    LET n == Len(<<"y1", "y2", "y3">>)
    IN MakeFigure(n, <<<<"slot", "slot">>>>, BaseAxes)

Axes(figure) == {p[1] : p \in DOMAIN figure.layout} \cap AxisNames

Titles == {"", "Commits by Month"}

(***************************************************************************)
(* The file names, sizes and scales the exporter is given.                 *)
(***************************************************************************)
Filenames ==
    { <<>>,
      <<"c">>,
      <<"c", ".", "p", "n", "g">>,
      <<"c", "p", "n", "g">>,
      <<"d", "/", "c">>,
      <<"d", "/", "c", ".", "p", "n", "g">>,
      <<"d", "/", "e", "/", "c">>,
      <<"d", "/", "e", "/", "c", ".", "p", "n", "g">>,
      <<".", "/", "d", "/", "/", "c">>,
      <<"c", ".", "p", "n", "g", "/", "e", "/", "f", "/", "c">>,
      <<"/", "d", "/", "c">>,
      <<"c", ".", "P", "N", "G">> }

Requests ==
    { [width |-> <<>>, height |-> <<>>, scale |-> <<>>],
      [width |-> <<1200>>, height |-> <<800>>, scale |-> <<<<1, 1>>>>],
      [width |-> <<1200>>, height |-> <<800>>, scale |-> <<<<2, 1>>>>],
      [width |-> <<1600>>, height |-> <<1000>>, scale |-> <<<<5, 2>>>>] }

\* plotter.py:232-233, the exports of the demonstration
DemoFilenames == { <<"c">>, <<"o", "/", "c">> }
DemoRequests ==
    { [width |-> <<>>, height |-> <<>>, scale |-> <<>>],
      [width |-> <<1600>>, height |-> <<1000>>, scale |-> <<<<5, 2>>>>] }

\* the parent directory of the file written for filename, and the
\* directories above it
ParentChain(filename) ==
    LET file_path == Path(normalize_filename(filename))
    IN Ancestors(file_path)

\* the parent directory and at least one more of its ancestors are missing
NestedMissing(f, filename) ==
    Cardinality({a \in ParentChain(filename) : ~path_exists(f, a)}) >= 2

\* a regular file stands where a directory of the chain is needed
Blocked(f, filename) == \E a \in ParentChain(filename) : is_file(f, a)

(***************************************************************************)
(* The state machine.                                                      *)
(***************************************************************************)
NoCall ==
    [op |-> "none", filename |-> <<>>, width |-> <<>>, height |-> <<>>,
     scale |-> <<>>, outcome |-> "ok", pre |-> [dirs |-> {}, files |-> {}],
     after_mkdir |-> [dirs |-> {}, files |-> {}], calls |-> <<>>,
     raised |-> NoError, ret |-> <<>>]

Summary(c) ==
    [op |-> c.op, filename |-> c.filename, outcome |-> c.outcome,
     raised |-> c.raised,
     missing |-> c.op # "none" /\ NestedMissing(c.pre, c.filename),
     blocked |-> c.op # "none" /\ Blocked(c.pre, c.filename)]

InitWith(figures) ==
    /\ PLOTLY_THEME = get_plotly_theme
    /\ CHART_COLORS = ChartColors
    /\ heap \in {(FIG :> f) : f \in figures}
    /\ call = [op |-> "none", fig |-> FIG, title |-> "", pre |-> <<>>,
               ret |-> <<>>]
    /\ descriptors = <<>>
    /\ fs = [dirs |-> {}, files |-> {}]
    /\ last = NoCall
    /\ prev = Summary(NoCall)
    /\ exports = 0

\* a caller styles its figure
UpdateLayout ==
    \E title \in Titles :
        LET r == update_layout(heap, FIG, title, PLOTLY_THEME, CHART_COLORS)
        IN /\ heap' = r.heap
           /\ PLOTLY_THEME' = r.theme
           /\ CHART_COLORS' = r.palette
           /\ call' = [op |-> "update_layout", fig |-> FIG, title |-> title,
                       pre |-> heap, ret |-> r.ret]
           /\ UNCHANGED <<descriptors, exportVars>>

\* a caller asks for the theme
GetPlotlyTheme ==
    /\ descriptors' = IF descriptors = <<>> THEN <<get_plotly_theme>>
                      ELSE <<descriptors[1], get_plotly_theme>>
    /\ UNCHANGED <<PLOTLY_THEME, CHART_COLORS, heap, call, exportVars>>

Exported(op, filename, request, outcome, r) ==
    /\ exports < MaxExports
    /\ fs' = r.fs
    /\ last' = [op |-> op, filename |-> filename, width |-> request.width,
                height |-> request.height, scale |-> request.scale,
                outcome |-> outcome, pre |-> fs,
                after_mkdir |-> r.after_mkdir, calls |-> r.calls,
                raised |-> r.raised, ret |-> r.ret]
    /\ prev' = Summary(last)
    /\ exports' = exports + 1
    /\ UNCHANGED styleVars

ExportPngHighQualityOf(filenames, requests) ==
    \E filename \in filenames, request \in requests, outcome \in EngineOutcomes :
        Exported("export_png_high_quality", filename, request, outcome,
                 export_png_high_quality(fs, FIG, filename, request.width,
                                         request.height, request.scale,
                                         outcome))

ExportPngOf(filenames, requests) ==
    \E filename \in filenames, request \in requests, outcome \in EngineOutcomes :
        Exported("export_png", filename, request, outcome,
                 export_png(fs, FIG, filename, request.width, request.height,
                            request.scale, outcome))

ExportPngHighQuality == ExportPngHighQualityOf(Filenames, Requests)
ExportPng == ExportPngOf(Filenames, Requests)
DemoExportPngHighQuality == ExportPngHighQualityOf(DemoFilenames, DemoRequests)
DemoExportPng == ExportPngOf(DemoFilenames, DemoRequests)

\* styling, over all the figures
InitStyle == InitWith(Figures)
NextStyle == UpdateLayout
SpecStyle == InitStyle /\ [][NextStyle]_vars

\* exporting, over all the file names and requests
InitExport == InitWith({DemoFigure})
NextExport == ExportPngHighQuality \/ ExportPng
SpecExport == InitExport /\ [][NextExport]_vars

\* the demonstration's figure, styled and exported in any order
Init == InitWith({DemoFigure})
Next ==
    \/ UpdateLayout
    \/ GetPlotlyTheme
    \/ DemoExportPngHighQuality
    \/ DemoExportPng
Spec == Init /\ [][Next]_vars

(***************************************************************************)
(* Properties of the styler, checked under SpecStyle.                      *)
(***************************************************************************)
Styled == call.op = "update_layout"
Before == call.pre[call.fig]
After == heap[call.fig]
PaletteColor(i) == CHART_COLORS[(i % Len(CHART_COLORS)) + 1]

\* the trace has been given the color in its line or in its marker
Received(trace, color) ==
    \/ HasSlot(trace.line) /\ trace.line.color = color
    \/ HasSlot(trace.marker) /\ trace.marker.color = color

Slotless(trace) == ~HasSlot(trace.line) /\ ~HasSlot(trace.marker)

\* C1, as stated: after update_layout every trace, at every index i of the
\* full trace sequence, has received the color CHART_COLORS[i mod P].
C1_EveryTraceColored ==
    Styled =>
        \A i \in 0..(Len(After.data) - 1) :
            Received(After.data[i + 1], PaletteColor(i))

\* C1, amended: after update_layout every trace that has a line or a marker
\* color slot has received CHART_COLORS[i mod P], i its index in the full
\* trace sequence (traces without a slot included in the count), for fewer
\* traces than colors, as many, and more.
C1_SlottedTracesColored ==
    Styled =>
        \A i \in 0..(Len(After.data) - 1) :
            ~Slotless(After.data[i + 1]) =>
                Received(After.data[i + 1], PaletteColor(i))

\* more traces than colors, and a trace with a slot right after one without
C1_Witness ==
    /\ Styled
    /\ Len(After.data) > Len(CHART_COLORS)
    /\ \E i \in 1..(Len(After.data) - 1) :
           /\ Slotless(After.data[i])
           /\ i >= Len(CHART_COLORS)
           /\ Received(After.data[i + 1], PaletteColor(i))

\* C5: update_layout returns the figure it was given (no new object), and
\* leaves the number of traces, their order and their x/y data as they
\* were: of a trace only the line color and the marker color may differ.
C5_DataUntouched ==
    Styled =>
        /\ call.ret = <<call.fig>>
        /\ DOMAIN heap = DOMAIN call.pre
        /\ Len(After.data) = Len(Before.data)
        /\ \A n \in 1..Len(Before.data) :
               /\ After.data[n].x = Before.data[n].x
               /\ After.data[n].y = Before.data[n].y
               /\ [After.data[n] EXCEPT
                      !.line.color = Before.data[n].line.color,
                      !.marker.color = Before.data[n].marker.color]
                  = Before.data[n]

\* a call that changed the layout and the colors of several traces
C5_Witness ==
    /\ Styled
    /\ Len(Before.data) >= 2
    /\ After.layout # Before.layout
    /\ \E n \in 1..Len(Before.data) : After.data[n] # Before.data[n]

AxisStyleKeys ==
    {"gridcolor", "gridwidth", "linecolor", "linewidth", "tickcolor",
     "zeroline", "zerolinecolor", "zerolinewidth"}

\* the descriptor's entry that styles the axis: xaxis for an x axis
DescriptorAxis(axis) ==
    IF axis \in {"xaxis", "xaxis2"} THEN "xaxis" ELSE "yaxis"

CarriesStyle(figure, axis) ==
    \A k \in AxisStyleKeys :
        /\ <<axis, k>> \in DOMAIN figure.layout
        /\ figure.layout[<<axis, k>>]
           = PLOTLY_THEME[<<"layout", DescriptorAxis(axis), k>>]

\* C9, as stated: after update_layout every axis the figure defines, the
\* additional ones included, carries the descriptor's axis styling.
C9_EveryAxisStyled ==
    Styled => \A axis \in Axes(After) : CarriesStyle(After, axis)

\* C9, what the code does establish: after update_layout the first x axis
\* and the first y axis carry the descriptor's grid, line, tick and
\* zero-line styling; every additional axis is left as it was.
C9_BaseAxesStyled ==
    Styled =>
        /\ \A axis \in BaseAxes : CarriesStyle(After, axis)
        /\ \A axis \in Axes(After) \ BaseAxes :
               Sub(After.layout, axis) = Sub(Before.layout, axis)

\* a styled figure with a second x and a second y axis
C9_Witness ==
    /\ Styled
    /\ {"xaxis2", "yaxis2"} \subseteq Axes(After)
    /\ Len(After.data) > 0

\* C10: for each trace, update_layout writes the palette color to the line
\* color when the trace has a line slot, leaving the marker as it was;
\* else to the marker color when it has a marker slot; a trace with neither
\* is unchanged, the call returns, and the traces after it are styled.
C10_LineBeforeMarker ==
    Styled =>
        /\ call.ret # <<>>
        /\ \A i \in 0..(Len(Before.data) - 1) :
               LET b == Before.data[i + 1]
                   a == After.data[i + 1]
               IN IF HasSlot(b.line)
                  THEN /\ a.line.color = PaletteColor(i)
                       /\ a.marker = b.marker
                  ELSE IF HasSlot(b.marker)
                  THEN /\ a.marker.color = PaletteColor(i)
                       /\ a.line = b.line
                  ELSE a = b

\* a trace with neither slot, and right after it one with both, whose line
\* got the color of its index and whose marker kept its color
C10_Witness ==
    /\ Styled
    /\ \E n \in 1..(Len(Before.data) - 1) :
           /\ Slotless(Before.data[n])
           /\ HasSlot(Before.data[n + 1].line)
           /\ HasSlot(Before.data[n + 1].marker)
           /\ After.data[n + 1].line.color = PaletteColor(n)
           /\ After.data[n + 1].marker.color = Preset

(***************************************************************************)
(* Properties of the exporter, checked under SpecExport.                   *)
(***************************************************************************)
Called == last.op # "none"

\* the entry point op, called in file system f
Run(op, f, filename, width, height, scale, outcome) ==
    IF op = "export_png"
    THEN export_png(f, FIG, filename, width, height, scale, outcome)
    ELSE export_png_high_quality(f, FIG, filename, width, height, scale,
                                 outcome)

\* what the last call did, as the state recorded it
Recorded ==
    [fs |-> fs, after_mkdir |-> last.after_mkdir, calls |-> last.calls,
     raised |-> last.raised, ret |-> last.ret]

Files(calls) == [k \in 1..Len(calls) |-> calls[k].file]

\* C2: for a name s that does not end in ".png", the export of s and the
\* export of s + ".png" return the same path and hand the same path to the
\* engine; a name that ends in ".png" gets no second suffix.
C2_SuffixOnce ==
    Called =>
        /\ ~EndsWith(last.filename, PNG) =>
               LET other == Run(last.op, last.pre, last.filename \o PNG,
                                last.width, last.height, last.scale,
                                last.outcome)
               IN /\ other.ret = last.ret
                  /\ Files(other.calls) = Files(last.calls)
                  /\ other.raised = last.raised
        /\ EndsWith(last.filename, PNG) =>
               /\ \A k \in 1..Len(last.calls) :
                      last.calls[k].file = PathStr(Path(last.filename))
               /\ \A k \in 1..Len(last.ret) :
                      last.ret[k] = PathStr(Path(last.filename))

\* a name without the suffix, in a directory, exported and returned
C2_Witness ==
    /\ Called
    /\ ~EndsWith(last.filename, PNG)
    /\ Len(Path(last.filename).parts) > 1
    /\ last.ret = <<PathStr(Path(last.filename \o PNG))>>
    /\ Files(last.calls) = last.ret

Chain == ParentChain(last.filename)

\* C3, as stated: for any file name whose parent directory and some of
\* its ancestors do not exist, two consecutive exports to it both succeed
\* when the engine does, the directories exist after the first, and the
\* directory creation of the second changes nothing.
C3_NestedTwice ==
    /\ (Called /\ NestedMissing(last.pre, last.filename)
            /\ last.outcome = "ok") =>
           /\ last.raised = NoError
           /\ \A d \in Chain : is_dir(fs, d)
    /\ (prev.op # "none" /\ prev.filename = last.filename /\ prev.missing
            /\ prev.outcome = "ok" /\ last.outcome = "ok") =>
           /\ prev.raised = NoError
           /\ last.raised = NoError
           /\ last.after_mkdir = last.pre

\* C3, amended: the same, for a file name none of whose ancestors is an
\* existing regular file (so that the file system lets the directories be
\* created).
C3_NestedTwiceUnblocked ==
    /\ (Called /\ NestedMissing(last.pre, last.filename)
            /\ ~Blocked(last.pre, last.filename) /\ last.outcome = "ok") =>
           /\ last.raised = NoError
           /\ \A d \in Chain : is_dir(fs, d)
    /\ (prev.op # "none" /\ prev.filename = last.filename /\ prev.missing
            /\ ~prev.blocked /\ prev.outcome = "ok"
            /\ last.outcome = "ok") =>
           /\ prev.raised = NoError
           /\ last.raised = NoError
           /\ last.after_mkdir = last.pre

\* the second of two exports to the same nested, missing directory
C3_Witness ==
    /\ prev.op # "none"
    /\ prev.filename = last.filename
    /\ prev.missing /\ ~prev.blocked
    /\ prev.outcome = "ok" /\ last.outcome = "ok"
    /\ last.raised = NoError
    /\ Cardinality(last.pre.dirs) >= 2

GivenSize == last.width # <<>> /\ last.height # <<>> /\ last.scale # <<>>

\* C4: the pixel dimensions asked of the engine are width*scale by
\* height*scale for the width, height and scale the caller gives: 1200 by
\* 800 at scale 1.0, and 2400 by 1600 at scale 2.0.
C4_ScaleLaw ==
    (Called /\ GivenSize) =>
        \A k \in 1..Len(last.calls) :
            LET w == last.width[1]
                h == last.height[1]
                s == last.scale[1]
                px == EnginePixels(last.calls[k])
            IN /\ px = <<(w * s[1]) \div s[2], (h * s[1]) \div s[2]>>
               /\ (w = 1200 /\ h = 800 /\ s = <<1, 1>>) => px = <<1200, 800>>
               /\ (w = 1200 /\ h = 800 /\ s = <<2, 1>>) => px = <<2400, 1600>>

\* export_png asked for 1200 by 800 at scale 2.0 and the engine was called
C4_Witness ==
    /\ last.op = "export_png"
    /\ last.width = <<1200>> /\ last.height = <<800>>
    /\ last.scale = <<<<2, 1>>>>
    /\ Len(last.calls) = 1
    /\ EnginePixels(last.calls[1]) = <<2400, 1600>>

\* C6: when the directory creation fails the export raises that error,
\* returns nothing and never calls the engine; when the engine fails the
\* export raises that error and returns nothing; the engine is called at
\* most once in an export.
C6_ErrorsPropagate ==
    Called =>
        LET made == create_parent(last.pre,
                                  Path(normalize_filename(last.filename)))
        IN /\ Len(last.calls) <= 1
           /\ made.err # NoError =>
                  /\ last.raised = made.err
                  /\ last.ret = <<>>
                  /\ last.calls = <<>>
           /\ \A k \in 1..Len(last.calls) :
                  LET written == write_image(made.fs, last.calls[k],
                                             last.outcome)
                  IN written.err # NoError =>
                         /\ last.raised = written.err
                         /\ last.ret = <<>>
           /\ last.raised # NoError => last.ret = <<>>

\* an export whose directory creation failed, after one that succeeded
C6_Witness ==
    /\ Called
    /\ prev.op # "none" /\ prev.raised = NoError
    /\ last.raised = "NotADirectoryError"
    /\ last.calls = <<>>
    /\ last.outcome = "ok"

\* C8: with the scale given, export_png and export_png_high_quality create
\* the same directories, make the same engine call and return the same
\* path; with the scale omitted they differ only in the scale handed to
\* the engine, 1.0 and 2.0; both default to width 1200 and height 800.
C8_SameExport ==
    Called =>
        LET a == export_png(last.pre, FIG, last.filename, last.width,
                            last.height, last.scale, last.outcome)
            b == export_png_high_quality(last.pre, FIG, last.filename,
                                         last.width, last.height, last.scale,
                                         last.outcome)
        IN /\ Recorded = IF last.op = "export_png" THEN a ELSE b
           /\ last.scale # <<>> => a = b
           /\ last.scale = <<>> =>
                  /\ [a EXCEPT !.calls = <<>>] = [b EXCEPT !.calls = <<>>]
                  /\ Len(a.calls) = Len(b.calls)
                  /\ \A k \in 1..Len(a.calls) :
                         /\ a.calls[k].scale = <<1, 1>>
                         /\ b.calls[k].scale = <<2, 1>>
                         /\ [a.calls[k] EXCEPT !.scale = <<2, 1>>] = b.calls[k]
           /\ \A k \in 1..Len(a.calls) :
                  /\ last.width = <<>> =>
                         a.calls[k].width = 1200 /\ b.calls[k].width = 1200
                  /\ last.height = <<>> =>
                         a.calls[k].height = 800 /\ b.calls[k].height = 800
                  /\ last.width # <<>> =>
                         a.calls[k].width = last.width[1]
                  /\ last.height # <<>> =>
                         a.calls[k].height = last.height[1]

\* export_png called with nothing but the file name, the engine called
C8_Witness ==
    /\ last.op = "export_png"
    /\ last.scale = <<>> /\ last.width = <<>> /\ last.height = <<>>
    /\ Len(last.calls) = 1
    /\ last.calls[1].scale = <<1, 1>>
    /\ last.ret # <<>>

(***************************************************************************)
(* Properties of the shared theme, checked under Spec.                     *)
(***************************************************************************)
\* C7: after any styling and export calls, every descriptor that
\* get_plotly_theme returned equals the first one, and PLOTLY_THEME and
\* CHART_COLORS have the values they were created with.
C7_ThemeImmutable ==
    /\ PLOTLY_THEME = get_plotly_theme
    /\ CHART_COLORS = ChartColors
    /\ \A k \in 1..Len(descriptors) :
           /\ descriptors[k] = descriptors[1]
           /\ descriptors[k] = PLOTLY_THEME

\* the theme was asked for twice, a figure was styled and exported
C7_Witness ==
    /\ Len(descriptors) = 2
    /\ Styled
    /\ After.layout[<<"title">>] = "Commits by Month"
    /\ Called /\ last.ret # <<>>

=============================================================================
